---- MODULE Spec2Model ----
(***************************************************************************)
(* Model of bax/alg/algorithms.py: the Algorithm base class with its       *)
(* generic pull loop, the scan-style variants, and the Dijkstras search    *)
(* whose edge costs are obtained from a cost evaluator that queries the    *)
(* oracle.                                                                 *)
(*                                                                         *)
(* Python values are represented as follows.                               *)
(*   None / absent      the empty tuple <<>>; a present value v is <<v>>   *)
(*   Vertex             its index, 0 .. NumVertices-1                      *)
(*   vertex list        the function index -> ordered neighbour list       *)
(*   float("inf")       Inf, a number above every finite path cost         *)
(*   exceptions         pc = "failed" with the exception's name in error   *)
(***************************************************************************)
EXTENDS Integers, Sequences, FiniteSets, TLC

\* ------------------------------------------------------------------ bounds
NumVertices == 4
MaxEdges == 3
MaxCost == 1
MaxQueries == 2
MaxRuns == 2
MaxLen == 3
MaxX == 2
MaxY == 1

VARIABLES
    alg,        \* the class of the algorithm object
    params,     \* self.params
    f,          \* the oracle: a deterministic table
    pc,         \* position of the program
    exe_path,   \* the execution trace Namespace(x, y)
    explored,   \* dijkstras: per-vertex explored flag
    min_cost,   \* dijkstras: per-vertex best-known cost
    prev,       \* dijkstras: per-vertex predecessor index or None
    to_explore, \* dijkstras: the priority queue of (cost, vertex) entries
    best_cost,  \* dijkstras: cost of the entry popped last
    current,    \* dijkstras: vertex of the entry popped last
    nbr,        \* dijkstras: position of the for loop in current.neighbors
    result,     \* the (exe_path, output) pair returned, or None
    error,      \* the exception that ended the run, or None
    runs,       \* number of runs started on the object
    results,    \* history: what each finished run returned (None: it raised)
    out_calls,  \* history: calls of get_output_from_exe_path in this run
    f_calls,    \* history: the oracle calls of this run, as <<x, y>> pairs
    evals,      \* history: the cost evaluator calls of this run
    direct      \* outcome of the caller's last get_output_from_exe_path
                \* call on the object since its run began, or None

vars == <<alg, params, f, pc, exe_path, explored, min_cost, prev,
          to_explore, best_cost, current, nbr, result, error, runs, results,
          out_calls, f_calls, evals, direct>>

\* the bookkeeping of dijkstras(start, goal)
search == <<explored, min_cost, prev, to_explore, best_cost, current, nbr>>

\* ----------------------------------------------------------------- values
None == <<>>
Some(v) == <<v>>
Val(o) == o[1]

Vertices == 0 .. (NumVertices - 1)
Costs == (0 - 1) .. MaxCost
Inf == NumVertices * MaxCost + 1

RECURSIVE SetToSeq(_)
\* the elements of a set of numbers in ascending order
SetToSeq(S) ==
    IF S = {} THEN <<>>
    ELSE LET m == CHOOSE x \in S : \A y \in S : x <= y
         IN <<m>> \o SetToSeq(S \ {m})

RECURSIVE Sum(_)
Sum(s) == IF s = <<>> THEN 0 ELSE Head(s) + Sum(Tail(s))

RECURSIVE Concat(_)
Concat(ss) == IF ss = <<>> THEN <<>> ELSE Head(ss) \o Concat(Tail(ss))

IsPrefix(s, t) == Len(s) <= Len(t) /\ SubSeq(t, 1, Len(s)) = s

\* Namespace(x=[], y=[])
EmptyExePath == [x |-> <<>>, y |-> <<>>]

\* ------------------------------------------------------- Dijkstras: inputs
\* getattr(params, name, default)
GetAttr(d, name, default) == IF d[name] = None THEN default ELSE Val(d[name])

\* lambda u, v: 0, the default of cost_func
DefaultCostFunc == [kind |-> "default"]

\* Dijkstras.set_params
DijkstrasSetParams(d) ==
    [name      |-> "Dijkstras",
     start     |-> d.start,
     goal      |-> d.goal,
     vertices  |-> d.vertices,
     cost_func |-> GetAttr(d, "cost_func", DefaultCostFunc),
     true_cost |-> GetAttr(d, "true_cost", "default")]

\* The neighbour lists of the vertex list of the bundle.
Neighbors(u) == Val(params.vertices)[u]

\* The cost evaluator handed in as cost_func. It samples the oracle along
\* the edge, NumQueries(u, v) times, at the points <<u, v, k>>; the oracle
\* answers each sample with the edge's cost, which the evaluator returns.
NumQueries(u, v) == (u + v) % (MaxQueries + 1)

EdgeOracle(oracle, x) == oracle[<<x[1], x[2]>>]

CostFunc(u, v, oracle) ==
    LET xs == [k \in 1 .. NumQueries(u, v) |-> <<u, v, k>>]
    IN [cost |-> oracle[<<u, v>>],
        xs   |-> xs,
        ys   |-> [k \in DOMAIN xs |-> EdgeOracle(oracle, xs[k])]]

\* backtrack_indices(index, prev): the indices from the chain's root to index
RECURSIVE backtrack_indices(_, _)
backtrack_indices(index, pv) ==
    IF pv[index] = None THEN <<index>>
    ELSE Append(backtrack_indices(Val(pv[index]), pv), index)

\* ------------------------------------------------------------ scan variants
ScanAlgs == {"LinearScan", "LinearScanRandGap", "AverageOutputs",
             "SortOutputs", "OptRightScan"}

RECURSIVE GCD(_, _)
GCD(a, b) == IF b = 0 THEN a ELSE GCD(b, a % b)

LCM(a, b) == (a * b) \div GCD(a, b)

RECURSIVE LCMUpTo(_)
LCMUpTo(n) == IF n <= 1 THEN 1 ELSE LCM(n, LCMUpTo(n - 1))

\* rand_factor of LinearScanRandGap.run_algorithm_on_f, in tenths
RandFactor == 2

\* np.ceil((1 - rand_factor) * n_grid) and np.ceil((1 + rand_factor) * n_grid)
MinGap(n_grid) == ((10 - RandFactor) * n_grid + 9) \div 10
MaxGap(n_grid) == ((10 + RandFactor) * n_grid + 9) \div 10

\* Inputs are numbers counted in 1/Unit, so that every grid np.linspace can
\* lay between two whole points is exact; the caller's points are whole.
Unit == LCMUpTo(MaxGap(MaxLen) - 2)
GridPoints == {k * Unit : k \in 0 .. MaxX}
Outputs == 0 .. MaxY

\* The oracle f(x): the table holds its value on each [k, k+1).
Oracle(x) == f[x \div Unit]

\* np.linspace(a, b, n)
Linspace(a, b, n) ==
    IF n = 1 THEN <<a>>
    ELSE [k \in 1 .. n |-> a + ((k - 1) * (b - a)) \div (n - 1)]

SeqMin(s) == CHOOSE m \in {s[k] : k \in DOMAIN s} : \A k \in DOMAIN s : m <= s[k]
SeqMax(s) == CHOOSE m \in {s[k] : k \in DOMAIN s} : \A k \in DOMAIN s : m >= s[k]

\* np.mean(y) as the fraction sum/len in lowest terms; 0/0 is nan
Mean(y) ==
    LET g == GCD(Sum(y), Len(y))
    IN IF g = 0 THEN <<0, 0>> ELSE <<Sum(y) \div g, Len(y) \div g>>

RECURSIVE ArgSortFrom(_, _)
ArgSortFrom(y, left) ==
    IF left = {} THEN <<>>
    ELSE LET k == CHOOSE a \in left :
                      \A b \in left : y[a] < y[b] \/ (y[a] = y[b] /\ a <= b)
         IN <<k - 1>> \o ArgSortFrom(y, left \ {k})

\* np.argsort(y): the 0-based positions of y in ascending order of value
ArgSort(y) == ArgSortFrom(y, DOMAIN y)

\* set_params of the class of the object
SetParams(a, d) ==
    CASE a \in {"LinearScan", "AverageOutputs", "SortOutputs"} ->
            [name |-> a, x_path |-> GetAttr(d, "x_path", <<>>)]
      [] a = "LinearScanRandGap" ->
            [name        |-> a,
             x_path      |-> GetAttr(d, "x_path", <<>>),
             x_path_orig |-> GetAttr(d, "x_path", <<>>)]
      [] a = "OptRightScan" ->
            \* every bundle of the model names the four fields
            [name        |-> a,
             init_x      |-> Val(d.init_x),
             x_grid_gap  |-> Val(d.x_grid_gap),
             conv_thresh |-> Val(d.conv_thresh),
             max_iter    |-> Val(d.max_iter)]
      [] a = "Dijkstras" -> DijkstrasSetParams(d)

\* Faulty variant: the last element of x_path is never returned.
AlgorithmGetNextXShort(ep, p) ==
    IF Len(ep.x) + 1 >= Len(p.x_path) THEN None
    ELSE Some(p.x_path[Len(ep.x) + 1])

\* Algorithm.get_next_x
AlgorithmGetNextX(ep, p) ==
    IF Len(ep.x) = Len(p.x_path) THEN None ELSE Some(p.x_path[Len(ep.x) + 1])

\* OptRightScan.get_next_x
OptRightScanGetNextX(ep, p) ==
    LET len_path == Len(ep.x)
        next_x == IF len_path = 0 THEN p.init_x
                  ELSE ep.x[len_path] + p.x_grid_gap
        converged ==
            /\ len_path >= 2
            /\ ep.y[len_path] >
                   SeqMin(SubSeq(ep.y, 1, len_path - 1)) + p.conv_thresh
    IN IF converged \/ len_path > p.max_iter THEN None ELSE Some(next_x)

\* Faulty variant: the position in x_path is a cursor kept on the object, which
\* counts the queries of all its runs instead of reading the trace.
GetNextXCursor(a, ep, p) ==
    LET earlier == Sum([k \in DOMAIN results |->
                        IF results[k] = None THEN 0
                        ELSE Len(Val(results[k]).exe_path.x)])
        cursor == earlier + Len(ep.x)
    IN IF a = "OptRightScan" THEN OptRightScanGetNextX(ep, p)
       ELSE IF cursor >= Len(p.x_path) THEN None
       ELSE Some(p.x_path[cursor + 1])

\* get_next_x of the class of the object
get_next_x(a, ep, p) ==
    IF a = "OptRightScan" THEN OptRightScanGetNextX(ep, p)
    ELSE AlgorithmGetNextX(ep, p)

\* get_output_from_exe_path of the class of the object
get_output_from_exe_path(a, ep) ==
    CASE a \in {"LinearScan", "LinearScanRandGap"} -> ep.y
      [] a = "AverageOutputs" -> Mean(ep.y)
      [] a = "SortOutputs" -> ArgSort(ep.y)
      [] a = "OptRightScan" -> ep.x[Len(ep.x)]

\* ---------------------------------------------------------------- bundles
\* The bundles a caller may hand to Dijkstras: a graph of at most MaxEdges
\* edges, a start, a goal, an evaluator and optionally a true_cost; or such
\* a bundle with required fields left out (its run never reaches the oracle,
\* which is then the table of zeros).
Pairs == {e \in Vertices \X Vertices : e[1] # e[2]}

EdgeSets == {E \in SUBSET Pairs : Cardinality(E) <= MaxEdges}

VertexList(E) == [u \in Vertices |-> SetToSeq({v \in Vertices : <<u, v>> \in E})]

\* The searches start at the first or at the last vertex of the list.
Starts == {0, NumVertices - 1}

Required == {"start", "goal", "vertices", "cost_func"}

Omissions == {{}} \cup {{a} : a \in Required} \cup {Required}

Bundle(E, s, g, tc, missing) ==
    [start     |-> IF "start" \in missing THEN None ELSE Some(s),
     goal      |-> IF "goal" \in missing THEN None ELSE Some(g),
     vertices  |-> IF "vertices" \in missing THEN None ELSE Some(VertexList(E)),
     cost_func |-> IF "cost_func" \in missing THEN None ELSE Some([kind |-> "given"]),
     true_cost |-> tc]

\* ------------------------------------------------------------ construction
\* Algorithm.__init__ has run: self.params is set_params of the bundle, and
\* nothing else of the state exists yet.
Idle ==
    /\ exe_path = EmptyExePath
    /\ explored = None /\ min_cost = None /\ prev = None
    /\ to_explore = {} /\ best_cost = 0 /\ current = None /\ nbr = 0
    /\ result = None /\ error = None
    /\ runs = 0 /\ results = <<>> /\ out_calls = 0
    /\ f_calls = <<>> /\ evals = <<>>
    /\ direct = None

InitDijkstras ==
    /\ alg = "Dijkstras"
    /\ \E E \in EdgeSets, s \in Starts, g \in Vertices,
          tc \in {None, Some("given")}, missing \in Omissions :
          /\ missing # {} => tc = None
          /\ params = SetParams(alg, Bundle(E, s, g, tc, missing))
          /\ f \in [E -> IF missing = {} THEN Costs ELSE {0}]
    /\ pc = "ready"
    /\ Idle

\* ------------------------------------------------------- Dijkstras: the run
\* The state a raised exception leaves: no result, the run is over.
Raise(name) ==
    /\ pc' = "failed"
    /\ error' = Some(name)
    /\ result' = None
    /\ results' = Append(results, None)

\* The state a return leaves.
Return(ep, output) ==
    /\ pc' = "done"
    /\ result' = Some([exe_path |-> ep, output |-> output])
    /\ results' = Append(results, Some([exe_path |-> ep, output |-> output]))

\* run_algorithm_on_f up to the while loop: the trace and the bookkeeping
\* of dijkstras(start, goal) are allocated.
RunDijkstras ==
    /\ pc = "ready"
    /\ alg = "Dijkstras"
    /\ params.vertices # None
    /\ runs' = runs + 1
    /\ exe_path' = EmptyExePath
    /\ explored' = [v \in Vertices |-> FALSE]
    /\ min_cost' = [v \in Vertices |-> Inf]
    /\ prev' = [v \in Vertices |-> None]
    /\ to_explore' = {<<0, params.start>>}
    /\ best_cost' = 0 /\ current' = None /\ nbr' = 0
    /\ result' = None /\ error' = None
    /\ out_calls' = 0 /\ f_calls' = <<>> /\ evals' = <<>>
    /\ direct' = None
    /\ pc' = "loop"
    /\ UNCHANGED <<alg, params, f, results>>

\* len(self.params.vertices) with vertices None
RunDijkstrasNoVertices ==
    /\ pc = "ready"
    /\ alg = "Dijkstras"
    /\ params.vertices = None
    /\ runs' = runs + 1
    /\ exe_path' = EmptyExePath
    /\ explored' = None /\ min_cost' = None /\ prev' = None
    /\ to_explore' = {}
    /\ best_cost' = 0 /\ current' = None /\ nbr' = 0
    /\ out_calls' = 0 /\ f_calls' = <<>> /\ evals' = <<>>
    /\ direct' = None
    /\ Raise("TypeError")
    /\ UNCHANGED <<alg, params, f>>

\* heapq.heappop: an entry of least cost; among entries of equal cost the
\* order of the vertices decides, which the model leaves open.
HeapPop(h) == {e \in h : \A o \in h : e[1] <= o[1]}

HeapPush(h, e) == h \cup {e}

\* Faulty variant: the cost of "no path" is reported as 0.
NoPathOutputZero == <<0, <<>>>>

\* float("inf"), []
NoPathOutput == <<Inf, <<>>>>

\* the while loop ends: return float("inf"), []
NoPath ==
    /\ pc = "loop"
    /\ to_explore = {}
    /\ Return(exe_path, NoPathOutput)
    /\ UNCHANGED <<direct, alg, params, f, exe_path, explored, min_cost, prev,
                   to_explore, best_cost, current, nbr, error, runs, f_calls,
                   evals, out_calls>>

\* the popped vertex is None: current.index raises
PopNoStart ==
    /\ pc = "loop"
    /\ \E e \in HeapPop(to_explore) :
          /\ e[2] = None
          /\ to_explore' = to_explore \ {e}
          /\ best_cost' = e[1]
          /\ current' = e[2]
    /\ Raise("AttributeError")
    /\ UNCHANGED <<direct, alg, params, f, exe_path, explored, min_cost, prev,
                   nbr, runs, f_calls, evals, out_calls>>

\* Faulty variant: the stale entry ends the while loop instead of being
\* skipped.
PopStaleBreaks ==
    /\ pc = "loop"
    /\ \E e \in HeapPop(to_explore) :
          /\ e[2] # None
          /\ explored[Val(e[2])]
          /\ to_explore' = to_explore \ {e}
          /\ best_cost' = e[1]
          /\ current' = e[2]
    /\ Return(exe_path, NoPathOutput)
    /\ UNCHANGED <<direct, alg, params, f, exe_path, explored, min_cost,
                   prev, nbr, error, runs, f_calls, evals, out_calls>>

\* the popped vertex is explored already: continue
PopStale ==
    /\ pc = "loop"
    /\ \E e \in HeapPop(to_explore) :
          /\ e[2] # None
          /\ explored[Val(e[2])]
          /\ to_explore' = to_explore \ {e}
          /\ best_cost' = e[1]
          /\ current' = e[2]
    /\ UNCHANGED <<direct, alg, params, f, pc, exe_path, explored, min_cost,
                   prev, nbr, result, error, runs, f_calls, evals, results, out_calls>>

\* Faulty variant: the flag is not set.
MarkExploredNever(expl, v) == expl

\* explored[current.index] = True
MarkExplored(expl, v) == [expl EXCEPT ![v] = TRUE]

\* the goal is None: goal.index raises, after current was marked explored
PopNoGoal ==
    /\ pc = "loop"
    /\ params.goal = None
    /\ \E e \in HeapPop(to_explore) :
          /\ e[2] # None
          /\ ~explored[Val(e[2])]
          /\ to_explore' = to_explore \ {e}
          /\ best_cost' = e[1]
          /\ current' = e[2]
          /\ explored' = MarkExplored(explored, Val(e[2]))
    /\ Raise("AttributeError")
    /\ UNCHANGED <<direct, alg, params, f, exe_path, min_cost, prev, nbr, runs,
                   f_calls, evals, out_calls>>

\* true_cost_of_path(path): every edge of the path is handed to true_cost
\* and the value is subscripted; the default lambda returns the number 0,
\* which has no subscript.
TrueCostOfPathRaises(tc, path) == Len(path) >= 2 /\ tc = "default"

\* the popped vertex is the goal: the path is reconstructed and returned
PopGoal ==
    /\ pc = "loop"
    /\ params.goal # None
    /\ \E e \in HeapPop(to_explore) :
          /\ e[2] # None
          /\ ~explored[Val(e[2])]
          /\ Val(e[2]) = Val(params.goal)
          /\ to_explore' = to_explore \ {e}
          /\ best_cost' = e[1]
          /\ current' = e[2]
          /\ explored' = MarkExplored(explored, Val(e[2]))
          /\ LET best_path == backtrack_indices(Val(e[2]), prev)
             IN /\ ~TrueCostOfPathRaises(params.true_cost, best_path)
                /\ Return(exe_path, <<e[1], best_path>>)
    /\ UNCHANGED <<direct, alg, params, f, exe_path, min_cost, prev, nbr,
                   error, runs, f_calls, evals, out_calls>>

\* the popped vertex is the goal and true_cost_of_path raises
PopGoalTrueCostRaises ==
    /\ pc = "loop"
    /\ params.goal # None
    /\ \E e \in HeapPop(to_explore) :
          /\ e[2] # None
          /\ ~explored[Val(e[2])]
          /\ Val(e[2]) = Val(params.goal)
          /\ to_explore' = to_explore \ {e}
          /\ best_cost' = e[1]
          /\ current' = e[2]
          /\ explored' = MarkExplored(explored, Val(e[2]))
          /\ TrueCostOfPathRaises(params.true_cost,
                                  backtrack_indices(Val(e[2]), prev))
    /\ Raise("TypeError")
    /\ UNCHANGED <<direct, alg, params, f, exe_path, min_cost, prev, nbr, runs,
                   f_calls, evals, out_calls>>

\* the popped vertex is neither explored nor the goal: its neighbours are
\* walked next
PopExpand ==
    /\ pc = "loop"
    /\ params.goal # None
    /\ \E e \in HeapPop(to_explore) :
          /\ e[2] # None
          /\ ~explored[Val(e[2])]
          /\ Val(e[2]) # Val(params.goal)
          /\ to_explore' = to_explore \ {e}
          /\ best_cost' = e[1]
          /\ current' = e[2]
          /\ explored' = MarkExplored(explored, Val(e[2]))
          /\ IF Neighbors(Val(e[2])) = <<>>
             THEN pc' = "loop" /\ nbr' = 0
             ELSE pc' = "expand" /\ nbr' = 1
    /\ UNCHANGED <<direct, alg, params, f, exe_path, min_cost, prev, result,
                   error, runs, f_calls, evals, results, out_calls>>

\* Faulty variant: only the inputs are recorded.
ExtendTraceInputsOnly(ep, xs, ys) == [x |-> ep.x \o xs, y |-> ep.y]

\* Faulty variant: the new queries are put in front of the trace.
ExtendTraceInFront(ep, xs, ys) == [x |-> xs \o ep.x, y |-> ys \o ep.y]

\* distance(u, v): exe_path.x.extend(xs); exe_path.y.extend(ys)
ExtendTrace(ep, xs, ys) == [x |-> ep.x \o xs, y |-> ep.y \o ys]

\* Faulty variant: the assertion is gone.
AssertCostNothing(cost) == TRUE

\* distance(u, v): assert cost >= 0
AssertCost(cost) == cost >= 0

\* Faulty variant: the predecessor is recorded only the first time.
SetPrevOnce(pv, v, u) == IF pv[v] = None THEN [pv EXCEPT ![v] = Some(u)] ELSE pv

\* prev[neighbor.index] = current.index
SetPrev(pv, v, u) == [pv EXCEPT ![v] = Some(u)]

\* Faulty variant: a vertex is pushed only the first time it is reached.
ImprovesFirstOnly(expl, mc, v, cand) == (~expl[v]) /\ mc[v] = Inf

\* Faulty variant: the explored flag of the neighbour is not consulted.
ImprovesIgnoringExplored(expl, mc, v, cand) == cand < mc[v]

\* the condition under which the neighbour is pushed
Improves(expl, mc, v, cand) == (~expl[v]) /\ cand < mc[v]

\* the for loop moves to the next neighbour, or the while loop resumes
NextNeighbor ==
    IF nbr < Len(Neighbors(Val(current)))
    THEN pc' = "expand" /\ nbr' = nbr + 1
    ELSE pc' = "loop" /\ nbr' = 0

\* the history of the evaluator and of the oracle after one evaluation
Logged(u, v, r) ==
    /\ evals' = Append(evals, [u |-> u, v |-> v, cost |-> r.cost,
                               xs |-> r.xs, ys |-> r.ys])
    /\ f_calls' = f_calls \o [k \in 1 .. Len(r.xs) |-> <<r.xs[k], r.ys[k]>>]

\* one pass of the for loop: the edge to the neighbour is evaluated, and
\* the neighbour is pushed when the edge improves its best-known cost
Relax ==
    /\ pc = "expand"
    /\ params.cost_func.kind # "default"
    /\ LET u == Val(current)
           v == Neighbors(u)[nbr]
           r == CostFunc(u, v, f)
           cand == best_cost + r.cost
       IN /\ AssertCost(r.cost)
          /\ exe_path' = ExtendTrace(exe_path, r.xs, r.ys)
          /\ Logged(u, v, r)
          /\ IF Improves(explored, min_cost, v, cand)
             THEN /\ to_explore' = HeapPush(to_explore, <<cand, Some(v)>>)
                  /\ min_cost' = [min_cost EXCEPT ![v] = cand]
                  /\ prev' = SetPrev(prev, v, u)
             ELSE UNCHANGED <<to_explore, min_cost, prev>>
    /\ NextNeighbor
    /\ UNCHANGED <<direct, alg, params, f, explored, best_cost, current,
                   result, error, runs, results, out_calls>>

\* the evaluator returns a negative cost: the assertion of distance fails
\* after the trace was extended
RelaxNegative ==
    /\ pc = "expand"
    /\ params.cost_func.kind # "default"
    /\ LET u == Val(current)
           v == Neighbors(u)[nbr]
           r == CostFunc(u, v, f)
       IN /\ ~AssertCost(r.cost)
          /\ exe_path' = ExtendTrace(exe_path, r.xs, r.ys)
          /\ Logged(u, v, r)
    /\ Raise("AssertionError")
    /\ UNCHANGED <<direct, alg, params, f, explored, min_cost, prev,
                   to_explore, best_cost, current, nbr, runs, out_calls>>

\* cost_func was left out: the default lambda takes two arguments and is
\* called with three
RelaxDefaultCostFunc ==
    /\ pc = "expand"
    /\ params.cost_func.kind = "default"
    /\ Raise("TypeError")
    /\ UNCHANGED <<direct, alg, params, f, exe_path, explored, min_cost, prev,
                   to_explore, best_cost, current, nbr, runs, f_calls, evals, out_calls>>

\* Faulty variant: the search inherits the scan's derived output.
DijkstrasGetOutputReturnsY(ep) == [raised |-> None, value |-> Some(ep.y)]

\* Dijkstras.get_output_from_exe_path(exe_path): raise RuntimeError
DijkstrasGetOutputFromExePath(ep) ==
    [raised |-> Some("RuntimeError"), value |-> None]

\* The caller asks the object for the output of a trace, the one the last
\* run returned or an empty one, outside of any run.
GetOutputDijkstras ==
    /\ alg = "Dijkstras"
    /\ pc \in {"ready", "done", "failed"}
    /\ \E ep \in {EmptyExePath, exe_path} :
          direct' = Some(DijkstrasGetOutputFromExePath(ep))
    /\ UNCHANGED <<alg, params, f, pc, exe_path, search, result, error,
                   runs, results, out_calls, f_calls, evals>>

NextDijkstras ==
    \/ RunDijkstras
    \/ RunDijkstrasNoVertices
    \/ NoPath
    \/ PopNoStart
    \/ PopStale
    \/ PopNoGoal
    \/ PopGoal
    \/ PopGoalTrueCostRaises
    \/ PopExpand
    \/ Relax
    \/ RelaxNegative
    \/ RelaxDefaultCostFunc
    \/ GetOutputDijkstras

SpecDijkstras == InitDijkstras /\ [][NextDijkstras]_vars

\* ------------------------------------------------------ scan variants: runs
\* The bundles a caller may hand to a scan variant.
Paths == UNION {[1 .. n -> GridPoints] : n \in 0 .. MaxLen}

ScanBundles(a) ==
    IF a = "OptRightScan"
    THEN {[init_x      |-> Some(x0),
           x_grid_gap  |-> Some(Unit),
           conv_thresh |-> Some(th),
           max_iter    |-> Some(m)] :
             x0 \in {0}, th \in Outputs, m \in 0 .. MaxX}
    ELSE {[x_path |-> xp] : xp \in {None} \cup {Some(q) : q \in Paths}}

InitScan ==
    /\ alg \in ScanAlgs
    /\ \E d \in ScanBundles(alg) : params = SetParams(alg, d)
    /\ f \in [0 .. MaxX -> Outputs]
    /\ pc = "ready"
    /\ Idle

\* The start of a run: what every run_algorithm_on_f resets.
Begin ==
    /\ pc \in {"ready", "done", "failed"}
    /\ runs < MaxRuns
    /\ runs' = runs + 1
    /\ out_calls' = 0 /\ f_calls' = <<>> /\ evals' = <<>>

\* Namespace(x=[], y=[]), the fresh trace of a run
NewExePath == EmptyExePath

\* Algorithm.run_algorithm_on_f up to the loop
RunScan ==
    /\ alg \in ScanAlgs \ {"LinearScanRandGap"}
    /\ Begin
    /\ exe_path' = NewExePath
    /\ result' = None /\ error' = None
    /\ pc' = "pull"
    /\ UNCHANGED <<direct, alg, params, f, search, results>>

\* LinearScanRandGap.run_algorithm_on_f: a new grid replaces params.x_path
RunRandGap ==
    /\ alg = "LinearScanRandGap"
    /\ Begin
    /\ LET x_path == params.x_path_orig
           n_grid == Len(x_path)
       IN /\ MinGap(n_grid) < MaxGap(n_grid)
          /\ \E new_n_grid \in MinGap(n_grid) .. (MaxGap(n_grid) - 1) :
                params' = [params EXCEPT !.x_path =
                    Linspace(SeqMin(x_path), SeqMax(x_path), new_n_grid)]
    /\ exe_path' = NewExePath
    /\ result' = None /\ error' = None
    /\ pc' = "pull"
    /\ UNCHANGED <<direct, alg, f, search, results>>

\* np.random.randint(0, 0) on an empty grid
RunRandGapEmpty ==
    /\ alg = "LinearScanRandGap"
    /\ Begin
    /\ Len(params.x_path_orig) = 0
    /\ exe_path' = exe_path
    /\ Raise("ValueError")
    /\ UNCHANGED <<direct, alg, params, f, search>>

\* one pass of the while loop: y = f(x), then both appends
Query ==
    /\ pc = "pull"
    /\ LET x == get_next_x(alg, exe_path, params)
       IN /\ x # None
          /\ exe_path' = [x |-> Append(exe_path.x, Val(x)),
                          y |-> Append(exe_path.y, Oracle(Val(x)))]
          /\ f_calls' = Append(f_calls, <<Val(x), Oracle(Val(x))>>)
    /\ UNCHANGED <<direct, alg, params, f, pc, search, result, error, runs,
                   results, out_calls, evals>>

\* get_next_x returned None: the output is computed and returned
Finish ==
    /\ pc = "pull"
    /\ get_next_x(alg, exe_path, params) = None
    /\ out_calls' = out_calls + 1
    /\ Return(exe_path, get_output_from_exe_path(alg, exe_path))
    /\ UNCHANGED <<direct, alg, params, f, exe_path, search, error, runs,
                   f_calls, evals>>

NextScan ==
    \/ RunScan
    \/ RunRandGap
    \/ RunRandGapEmpty
    \/ Query
    \/ Finish

SpecScan == InitScan /\ [][NextScan]_vars

Init == InitDijkstras \/ InitScan

Next == NextDijkstras \/ NextScan

Spec == Init /\ [][Next]_vars

\* ------------------------------------------------------------------ claims
\* The bundle names a start, a goal, a vertex list and an evaluator.
WellFormed ==
    /\ alg = "Dijkstras"
    /\ params.start # None /\ params.goal # None /\ params.vertices # None
    /\ params.cost_func.kind = "given"

Start == Val(params.start)
Goal == Val(params.goal)
Edges == DOMAIN f

\* The evaluator returns no negative cost on any edge of the graph.
NonNegative == \A e \in Edges : f[e] >= 0

\* Least cost of a walk of at most k edges from Start to each vertex, under
\* the evaluator's costs (Inf: no such walk).
RECURSIVE Dist(_)
Dist(k) ==
    IF k = 0 THEN [v \in Vertices |-> IF v = Start THEN 0 ELSE Inf]
    ELSE LET d == Dist(k - 1)
             via(v) == {d[e[1]] + f[e] : e \in {a \in Edges : a[2] = v /\ d[a[1]] < Inf}}
         IN [v \in Vertices |->
                LET c == via(v) \cup {d[v]}
                IN CHOOSE m \in c : \A o \in c : m <= o]

MinPathCost(v) == Dist(NumVertices - 1)[v]

Reachable(v) == Dist(NumVertices - 1)[v] < Inf

Output == Val(result).output

\* C1: optimality. With a deterministic evaluator of non-negative costs and
\* the goal reachable from the start, the cost a Dijkstras run returns is
\* the least sum of edge costs over the start-to-goal paths of the graph.
C1_Optimality ==
    (pc = "done" /\ WellFormed /\ NonNegative /\ Reachable(Goal))
        => Output[1] = MinPathCost(Goal)

\* A run that returned a two-edge path although a costlier direct edge from
\* start to goal was found first.
C1_Witness ==
    /\ pc = "done" /\ WellFormed /\ NonNegative
    /\ Len(Output[2]) = 3
    /\ <<Start, Goal>> \in Edges
    /\ f[<<Start, Goal>>] > Output[1]

\* The vertices a walk from Start reaches, whatever the costs.
RECURSIVE ReachIn(_)
ReachIn(k) ==
    IF k = 0 THEN {Start}
    ELSE LET r == ReachIn(k - 1) IN r \cup {e[2] : e \in {a \in Edges : a[1] \in r}}

ReachSet == ReachIn(NumVertices - 1)

\* The search popped the goal unexplored: path reconstruction was reached.
GoalReached ==
    /\ WellFormed
    /\ pc \in {"done", "failed"}
    /\ current = params.goal
    /\ error \in {None, Some("TypeError")}

\* The cost the evaluator returned for the edge (u, v) in this run.
Recorded(u, v) == {evals[k].cost : k \in {j \in DOMAIN evals : evals[j].u = u /\ evals[j].v = v}}

IsWalk(p) ==
    /\ p # <<>> /\ p[1] = Start /\ p[Len(p)] = Goal
    /\ \A k \in 1 .. (Len(p) - 1) : \E j \in DOMAIN Neighbors(p[k]) : Neighbors(p[k])[j] = p[k + 1]
    /\ \A k \in 1 .. (Len(p) - 1) : Cardinality(Recorded(p[k], p[k + 1])) = 1

WalkCost(p) == Sum([k \in 1 .. (Len(p) - 1) |-> CHOOSE c \in Recorded(p[k], p[k + 1]) : TRUE])

\* C2: path validity. When the search reaches the goal, the predecessor map
\* leads from the goal back to the start: the reconstructed path begins at
\* start, ends at goal, each step follows a neighbour link, and the costs
\* the evaluator returned for its edges add up to the cost of the popped
\* entry; a run that returns hands back exactly that cost and path.
C2_PathValid ==
    GoalReached =>
        LET p == backtrack_indices(Goal, prev)
        IN /\ IsWalk(p)
           /\ WalkCost(p) = best_cost
           /\ pc = "done" => Output = <<best_cost, p>>

\* A run that returned a path of at least two edges with a positive cost.
C2_Witness ==
    /\ GoalReached /\ pc = "done"
    /\ Len(Output[2]) >= 3
    /\ Output[1] > 0

\* The trace as pairs.
TracePairs == [k \in DOMAIN exe_path.x |-> <<exe_path.x[k], exe_path.y[k]>>]

\* C3: trace consistency. In every run, generic loop and search alike, the
\* trace holds as many outputs as inputs after every step, each output is
\* the oracle's answer to the input at its position, and the trace returned
\* is that trace.
C3_TraceConsistent ==
    /\ Len(exe_path.x) = Len(exe_path.y)
    /\ TracePairs = f_calls
    /\ pc = "done" => Val(result).exe_path = exe_path

\* A finished search whose trace holds several queries.
C3_Witness ==
    /\ alg = "Dijkstras" /\ pc = "done"
    /\ Len(exe_path.x) >= 3

LastEval == evals[Len(evals)]

\* C4: a negative edge cost is fatal. The step in which the evaluator
\* returns a negative cost ends the run with no result and without touching
\* the frontier, the best-known costs or the predecessors; after a failure
\* nothing is evaluated, queried or recorded any more.
C4_NegativeFatal ==
    /\ [][(evals' # evals /\ LastEval'.cost < 0) =>
            /\ pc' = "failed" /\ result' = None
            /\ to_explore' = to_explore /\ min_cost' = min_cost /\ prev' = prev]_vars
    /\ [][pc = "failed" =>
            /\ pc' = "failed" /\ result' = None
            /\ evals' = evals /\ f_calls' = f_calls /\ exe_path' = exe_path
            /\ to_explore' = to_explore /\ min_cost' = min_cost]_vars

\* A run that failed on a negative cost after an earlier evaluation, with
\* entries still on the frontier.
C4_Witness ==
    /\ pc = "failed" /\ error = Some("AssertionError")
    /\ Len(evals) >= 2 /\ LastEval.cost < 0
    /\ to_explore # {}

NoPathCase == WellFormed /\ Goal \notin ReachSet

\* Every query of the trace comes from evaluating an edge that leaves a
\* vertex reachable from the start.
QueriesFromReachable ==
    /\ \A k \in DOMAIN evals : evals[k].u \in ReachSet
    /\ exe_path.x = Concat([k \in DOMAIN evals |-> evals[k].xs])

\* C5 as stated: with the goal unreachable, the run ends normally with
\* infinite cost and an empty path.
C5_AsStated ==
    (NoPathCase /\ pc \in {"done", "failed"}) =>
        /\ pc = "done"
        /\ Output = <<Inf, <<>>>>
        /\ QueriesFromReachable

\* C5, amended: with the goal unreachable, a run in which the evaluator
\* returns no negative cost ends normally with infinite cost and an empty
\* path (a run fails only at a negative cost), and every query of the trace
\* comes from evaluating an edge that leaves a vertex reachable from start.
C5_NoPath ==
    NoPathCase =>
        /\ pc = "failed" => (evals # <<>> /\ LastEval.cost < 0)
        /\ pc = "done" => Output = <<Inf, <<>>>>
        /\ QueriesFromReachable

\* A search that ended without a path after several evaluations, in a graph
\* that also has an edge out of reach.
C5_Witness ==
    /\ NoPathCase /\ pc = "done"
    /\ Len(evals) >= 2
    /\ \E e \in Edges : e[1] \notin ReachSet

\* C6 as stated: no step of a run changes a field of self.params.
C6_ParamsImmutable == [][params' = params]_vars

\* C7 as stated: no run begins on a Dijkstras object whose bundle lacks the
\* start, the goal or the vertex list, since constructing it failed.
C7_FailFast ==
    (alg = "Dijkstras" /\ runs > 0) =>
        (params.start # None /\ params.goal # None /\ params.vertices # None)

\* the variants that scan a precomputed x_path
PathAlgs == ScanAlgs \ {"OptRightScan"}

\* C8: the generic pull loop. For a variant with a precomputed x_path the
\* oracle is called once per element of x_path, in order; each pair enters
\* the trace with its query; the loop stops when x_path is used up, and
\* only then, and once, is get_output_from_exe_path called: the inputs of
\* the final trace are x_path.
C8_PullLoop ==
    (alg \in PathAlgs /\ pc \in {"pull", "done"}) =>
        /\ IsPrefix(exe_path.x, params.x_path)
        /\ [k \in DOMAIN f_calls |-> f_calls[k][1]] = exe_path.x
        /\ TracePairs = f_calls
        /\ pc = "pull" => out_calls = 0
        /\ pc = "done" =>
              /\ out_calls = 1
              /\ exe_path.x = params.x_path
              /\ Val(result).exe_path = exe_path

\* A finished LinearScan of several points that are not in ascending order.
C8_Witness ==
    /\ alg = "LinearScan" /\ pc = "done"
    /\ Len(exe_path.x) >= 3
    /\ exe_path.x[1] > exe_path.x[2]

Deterministic == ScanAlgs \ {"LinearScanRandGap"}

\* C9: determinism. Two consecutive runs of a non-randomized scan variant
\* on the same object, against the same deterministic oracle, return the
\* same trace and the same output.
C9_Deterministic ==
    (alg \in Deterministic /\ Len(results) >= 2) => results[1] = results[2]

\* The second run of an OptRightScan that made several queries is over.
C9_Witness ==
    /\ alg = "OptRightScan" /\ Len(results) = 2
    /\ results[2] # None
    /\ Len(Val(results[2]).exe_path.x) >= 2

TraceIsConcat ==
    /\ exe_path.x = Concat([k \in DOMAIN evals |-> evals[k].xs])
    /\ exe_path.y = Concat([k \in DOMAIN evals |-> evals[k].ys])

\* C10: verbatim accumulation. After every step of a Dijkstras run the trace
\* inputs (outputs) are the concatenation, in call order, of the query
\* inputs (outputs) the evaluator calls returned so far, and the trace
\* before the step is a prefix of the trace after it.
C10_Verbatim ==
    [][alg = "Dijkstras" =>
          /\ TraceIsConcat'
          /\ IsPrefix(exe_path.x, exe_path'.x)
          /\ IsPrefix(exe_path.y, exe_path'.y)]_vars

\* A finished search whose evaluator calls returned no query, one query
\* and two queries.
C10_Witness ==
    /\ alg = "Dijkstras" /\ pc = "done"
    /\ \A n \in 0 .. 2 : \E k \in DOMAIN evals : Len(evals[k].xs) = n

\* C11: unsupported derived output. Asking a Dijkstras object for the output
\* of a trace always raises RuntimeError and returns nothing, and leaves the
\* trace and self.params as they were; a run never makes that call, and
\* what it returns is the (cost, path) pair of the search itself.
C11_Unsupported ==
    /\ [][(alg = "Dijkstras" /\ direct' # direct /\ direct' # None) =>
            /\ direct' = Some([raised |-> Some("RuntimeError"), value |-> None])
            /\ exe_path' = exe_path
            /\ params' = params
            /\ result' = result]_vars
    /\ [](alg = "Dijkstras" => out_calls = 0)
    /\ []((alg = "Dijkstras" /\ pc = "done") =>
            Output \in {<<Inf, <<>>>>,
                        <<best_cost, backtrack_indices(Val(current), prev)>>})

\* The output of a trace with queries was asked for after a search that
\* found its goal.
C11_Witness ==
    /\ alg = "Dijkstras" /\ pc = "done"
    /\ direct # None
    /\ exe_path.x # <<>>
    /\ Output[2] # <<>>

\* C12 as stated: the evaluator is called, and queries enter the trace, only
\* for a neighbour that is not explored at the time of the call.
C12_OnlyUnexplored ==
    [][(alg = "Dijkstras" /\ (evals' # evals \/ exe_path' # exe_path)) =>
          ~explored[LastEval'.v]]_vars

\* A step of a search that pops an entry whose vertex is explored already.
StalePop ==
    /\ pc = "loop"
    /\ to_explore' # to_explore /\ to_explore' \subseteq to_explore
    /\ current' # None
    /\ explored[Val(current')]

\* C13: stale entries are tolerated. Popping an entry of a vertex that is
\* explored already removes that entry and nothing else happens: no
\* evaluation, no query, no change of the best-known costs, the
\* predecessors or the explored flags, no push, and the search goes on. A
\* step marks at most the vertex it popped, which was not explored before;
\* the walk over the neighbours starts only for such a vertex; and an
\* explored flag is never taken back.
C13_StaleTolerated ==
    [][(alg = "Dijkstras" /\ pc \in {"loop", "expand"}) =>
          /\ StalePop =>
                /\ to_explore' = to_explore \ {<<best_cost', current'>>}
                /\ evals' = evals /\ f_calls' = f_calls
                /\ exe_path' = exe_path
                /\ min_cost' = min_cost /\ prev' = prev
                /\ explored' = explored
                /\ pc' = "loop" /\ result' = result
          /\ \A v \in Vertices : explored[v] => explored'[v]
          /\ explored' # explored =>
                \E v \in Vertices :
                    /\ ~explored[v]
                    /\ explored' = [explored EXCEPT ![v] = TRUE]
                    /\ current' = Some(v)
          /\ (pc = "loop" /\ pc' = "expand") => ~explored[Val(current')]]_vars

\* A stale entry was just popped: its cost is above the best-known cost of
\* its vertex, which was explored through a cheaper entry.
C13_Witness ==
    /\ WellFormed /\ pc = "loop"
    /\ current # None /\ current # params.start
    /\ explored[Val(current)]
    /\ best_cost > min_cost[Val(current)]

\* C14 as stated: with an evaluator of non-negative costs a run that has
\* ended has ended normally, in one of two ways: the goal was found (finite
\* cost, non-empty path) or the frontier ran empty (infinite cost, empty
\* path).
C14_TwoOutcomes ==
    (WellFormed /\ NonNegative /\ pc \in {"done", "failed"}) =>
        /\ pc = "done"
        /\ \/ Output[1] < Inf /\ Output[2] # <<>>
           \/ Output = <<Inf, <<>>>> /\ to_explore = {}

\* C15 as stated: an OptRightScan run issues at most max_iter oracle
\* queries, whatever the oracle answers.
C15_StepBound ==
    alg = "OptRightScan" =>
        /\ Len(f_calls) <= params.max_iter
        /\ Len(exe_path.x) <= params.max_iter

\* The latest output of the trace exceeds the least earlier output by more
\* than conv_thresh.
Crossed ==
    LET n == Len(exe_path.y)
    IN /\ n >= 2
       /\ exe_path.y[n] > SeqMin(SubSeq(exe_path.y, 1, n - 1)) + params.conv_thresh

\* C16 as stated: an OptRightScan run that stopped because the latest
\* output crossed the threshold, the step bound not being reached, returns
\* the input queried right before the one whose output crossed it.
C16_LastAccepted ==
    (/\ alg = "OptRightScan" /\ pc = "done"
     /\ Crossed /\ Len(exe_path.x) <= params.max_iter) =>
        Output = exe_path.x[Len(exe_path.x) - 1]

\* C17 as stated: when a search begins, before its first pop, the
\* best-known cost of the start is 0 and that of every other vertex is
\* infinite, no vertex is explored, no vertex has a predecessor, and the
\* frontier holds the entry (0, start) and nothing else.
C17_Initialized ==
    (WellFormed /\ pc = "loop" /\ current = None) =>
        /\ min_cost = [v \in Vertices |-> IF v = Start THEN 0 ELSE Inf]
        /\ explored = [v \in Vertices |-> FALSE]
        /\ prev = [v \in Vertices |-> None]
        /\ to_explore = {<<0, params.start>>}

\* A step of a search that pops the goal, unexplored until then.
GoalPop ==
    /\ WellFormed /\ pc = "loop"
    /\ ~explored[Goal] /\ explored'[Goal]

\* C18 as stated: the step that pops the goal unexplored makes the run
\* return, with entries possibly left on the frontier; the goal is never
\* expanded, so no edge out of the goal is evaluated; and from that pop on
\* there is no evaluation, no oracle query and no append to the trace.
C18_GoalStops ==
    [][/\ GoalPop =>
            /\ pc' = "done" /\ result' # None
            /\ evals' = evals /\ f_calls' = f_calls /\ exe_path' = exe_path
       /\ (WellFormed /\ pc # "ready" /\ explored[Goal]) =>
            /\ pc' = pc
            /\ evals' = evals /\ f_calls' = f_calls /\ exe_path' = exe_path
       /\ WellFormed => \A k \in DOMAIN evals' : evals'[k].u # Goal]_vars

\* C19: finalization is monotone. With non-negative evaluator costs, in
\* every step of a search: the cost of the popped entry never goes down, so
\* vertices are marked explored at non-decreasing costs; no best-known cost
\* goes up; a vertex other than the start is marked at its best-known cost;
\* and the best-known cost and the predecessor of an explored vertex stay
\* as they are.
C19_Monotone ==
    [][(WellFormed /\ NonNegative /\ pc \in {"loop", "expand"}) =>
          /\ best_cost' >= best_cost
          /\ \A v \in Vertices :
                /\ min_cost'[v] <= min_cost[v]
                /\ (~explored[v] /\ explored'[v] /\ v # Start) =>
                      (best_cost' = min_cost[v] /\ min_cost'[v] = min_cost[v])
                /\ explored[v] =>
                      (min_cost'[v] = min_cost[v] /\ prev'[v] = prev[v])]_vars

\* A search with non-negative costs that marked three vertices, the last
\* one at a cost above that of the start.
C19_Witness ==
    /\ WellFormed /\ NonNegative /\ pc = "done"
    /\ Cardinality({v \in Vertices : explored[v]}) >= 3
    /\ best_cost >= 1
    /\ current # None /\ explored[Val(current)]
    /\ best_cost = min_cost[Val(current)]

\* The explored vertices other than the goal: the ones whose neighbours the
\* search walks.
Expanded == {u \in Vertices : explored[u] /\ u # Goal}

\* C20: each directed edge is evaluated at most once in a run. The
\* neighbour lists holding no vertex twice, no two evaluator calls of a
\* search are for the same ordered pair (u, v); every call is for a u that
\* is explored by then and is not the goal; and there are at most as many
\* calls as the explored non-goal vertices have neighbours.
C20_EdgeOnce ==
    (WellFormed /\ pc # "ready") =>
        /\ \A j, k \in DOMAIN evals :
              (evals[j].u = evals[k].u /\ evals[j].v = evals[k].v) => j = k
        /\ \A k \in DOMAIN evals : evals[k].u \in Expanded
        /\ Len(evals) <= Sum([k \in 1 .. Cardinality(Expanded) |->
                                Len(Neighbors(SetToSeq(Expanded)[k]))])

\* A finished search that evaluated edges out of two vertices and found a
\* goal that has a neighbour of its own.
C20_Witness ==
    /\ WellFormed /\ pc = "done"
    /\ explored[Goal] /\ Neighbors(Goal) # <<>>
    /\ \E j, k \in DOMAIN evals : evals[j].u # evals[k].u

====
